---- MODULE Spec2Model ----
(***************************************************************************)
(* Real Estate AI: the mock API server, the three analysis pages that call *)
(* it (PriceEstimator, DealEvaluator, LocationAnalyzer) and the App routes.*)
(*                                                                         *)
(* JavaScript numbers are modelled as exact fractions [n, d] with d >= 0:  *)
(* d > 0 is the finite value n/d, d = 0 is NaN (n = 0), +Infinity (n > 0)  *)
(* or -Infinity (n < 0).  A request field is a JavaScript value of one of  *)
(* three kinds: "num" (a number, or a numeric string such as the form's    *)
(* "2.5": both parse and coerce alike), "empty" (the empty string) and     *)
(* "nan" (a missing field or a non-numeric string).                        *)
(***************************************************************************)
EXTENDS Integers, Sequences, FiniteSets, TLC

VARIABLES timers, call, page, app, theme

vars == <<timers, call, page, app, theme>>

\* the App around the pages, which no server or page step touches
shell == <<app, theme>>

----------------------------------------------------------------------------
(* Bounds of the model *)

\* number of API clients that call the server side by side
NumCallers == 2
\* areas MinArea .. MinArea + AreaWindow are enumerated one by one
AreaWindow == 60
\* deal prices and market values 0 .. MaxDeal are enumerated one by one
MaxDeal == 40
\* entries the browser history keeps
MaxHistory == 3
\* API clients that take part when every request has to be answered
MaxActive == 2

----------------------------------------------------------------------------
(* JavaScript numbers *)

Num(k) == [n |-> k, d |-> 1]
Frac(a, b) == [n |-> a, d |-> b]
NaN == [n |-> 0, d |-> 0]

IsNaN(x) == x.d = 0 /\ x.n = 0
Sign(k) == IF k > 0 THEN 1 ELSE IF k < 0 THEN -1 ELSE 0

\* a * b
Mul(a, b) == [n |-> a.n * b.n, d |-> a.d * b.d]

\* a + b
Add(a, b) ==
    IF a.d = 0 /\ b.d = 0
    THEN IF Sign(a.n) = Sign(b.n) THEN [n |-> Sign(a.n), d |-> 0] ELSE NaN
    ELSE [n |-> a.n * b.d + b.n * a.d, d |-> a.d * b.d]

\* a / b
Div(a, b) ==
    LET nn == a.n * b.d
        dd == a.d * b.n
    IN  IF dd < 0 THEN [n |-> -nn, d |-> -dd] ELSE [n |-> nn, d |-> dd]

\* a <= b (false as soon as one side is NaN)
Leq(a, b) ==
    IF IsNaN(a) \/ IsNaN(b) THEN FALSE
    ELSE IF a.d = 0 /\ b.d = 0 THEN a.n <= b.n
    ELSE a.n * b.d <= b.n * a.d

\* a >= b
Geq(a, b) == Leq(b, a)

\* Math.round: the nearest integer, a tie going up
MathRound(x) == IF x.d = 0 THEN x ELSE Num((2 * x.n + x.d) \div (2 * x.d))

\* Math.min
MathMin(a, b) == IF IsNaN(a) \/ IsNaN(b) THEN NaN ELSE IF Leq(a, b) THEN a ELSE b

\* the integer part of a finite number, toward zero
Trunc(x) ==
    IF x.n >= 0 THEN Num(x.n \div x.d) ELSE Num(-((-x.n) \div x.d))

----------------------------------------------------------------------------
(* JavaScript values of request fields *)

JsNum(a, b) == [k |-> "num", n |-> a, d |-> b]
JsInt(a) == JsNum(a, 1)
JsEmpty == [k |-> "empty", n |-> 0, d |-> 0]
JsNaN == [k |-> "nan", n |-> 0, d |-> 0]

\* ToNumber, as applied by *, / and >=
ToNumber(v) ==
    IF v.k = "num" THEN Frac(v.n, v.d)
    ELSE IF v.k = "empty" THEN Num(0)
    ELSE NaN

\* parseInt
parseInt(v) ==
    IF v.k = "num" /\ v.d > 0 THEN Trunc(Frac(v.n, v.d)) ELSE NaN

\* parseFloat
parseFloat(v) ==
    IF v.k = "num" THEN Frac(v.n, v.d) ELSE NaN

----------------------------------------------------------------------------
(* POST /api/price-estimator *)

PriceEstimatorPath == "/api/price-estimator"
DealEvaluatorPath == "/api/deal-evaluator"
LocationAnalyzerPath == "/api/location-analyzer"
SearchHistoryPath == "/api/dashboard/search-history"
GeneratedReportsPath == "/api/dashboard/generated-reports"
ExportPdfPath == "/api/reports/:reportId/export-pdf"

basePrice == 250000

bedroomMultiplier(body) == Mul(parseInt(body.bedrooms), Num(25000))

\* variant: bathrooms parsed like bedrooms, losing the half
bathroomMultiplierParseInt(body) == Mul(parseInt(body.bathrooms), Num(15000))

bathroomMultiplier(body) == Mul(parseFloat(body.bathrooms), Num(15000))

areaMultiplier(body) == Mul(parseInt(body.area), Num(100))

\* variant: the Land key misspelt, so that Land finds no multiplier
typeMultiplierNoLand(propertyType) ==
    IF propertyType = "House" THEN Frac(12, 10)
    ELSE IF propertyType = "Apartment" THEN Frac(10, 10)
    ELSE NaN

\* typeMultiplier[propertyType]: undefined (NaN in a product) for any other key
typeMultiplier(propertyType) ==
    IF propertyType = "House" THEN Frac(12, 10)
    ELSE IF propertyType = "Apartment" THEN Frac(10, 10)
    ELSE IF propertyType = "Land" THEN Frac(8, 10)
    ELSE NaN

estimatedPrice(body) ==
    MathRound(Mul(Add(Add(Add(Num(basePrice), bedroomMultiplier(body)),
                          bathroomMultiplier(body)),
                      areaMultiplier(body)),
                  typeMultiplier(body.propertyType)))

\* variant: whole hundreds of area only
confidenceWholeHundreds(body) ==
    MathMin(Num(95),
            Add(Add(Add(Num(70), Mul(ToNumber(body.bedrooms), Num(2))),
                    Mul(ToNumber(body.bathrooms), Num(3))),
                parseInt([k |-> "num", n |-> Div(ToNumber(body.area), Num(100)).n,
                          d |-> Div(ToNumber(body.area), Num(100)).d])))

\* variant: no Math.min
confidenceUncapped(body) ==
    Add(Add(Add(Num(70), Mul(ToNumber(body.bedrooms), Num(2))),
            Mul(ToNumber(body.bathrooms), Num(3))),
        Div(ToNumber(body.area), Num(100)))

confidence(body) ==
    MathMin(Num(95),
            Add(Add(Add(Num(70), Mul(ToNumber(body.bedrooms), Num(2))),
                    Mul(ToNumber(body.bathrooms), Num(3))),
                Div(ToNumber(body.area), Num(100))))

\* variant: bedrooms > 3
factorsMoreThanThree(body) ==
    LET many == Geq(ToNumber(body.bedrooms), Num(3)) /\ ~Leq(ToNumber(body.bedrooms), Num(3))
    IN  << [factor |-> "Property Type", impact |-> "Positive",
            description |-> [arg |-> body.propertyType,
                             text |-> "properties have good market value in this area"]],
           [factor |-> "Location", impact |-> "Positive",
            description |-> [arg |-> body.location,
                             text |-> "is a desirable location with good amenities"]],
           [factor |-> "Size", impact |-> "Positive",
            description |-> [arg |-> body.area,
                             text |-> "sq.ft provides adequate living space for the market"]],
           [factor |-> "Bedrooms",
            impact |-> IF many THEN "Positive" ELSE "Neutral",
            description |-> [arg |-> body.bedrooms,
                             text |-> IF many THEN "bedrooms meet strong market demand"
                                      ELSE "bedrooms are adequate for the area"]] >>

\* a description is its template with the interpolated value kept apart
factors(body) ==
    << [factor |-> "Property Type", impact |-> "Positive",
        description |-> [arg |-> body.propertyType,
                         text |-> "properties have good market value in this area"]],
       [factor |-> "Location", impact |-> "Positive",
        description |-> [arg |-> body.location,
                         text |-> "is a desirable location with good amenities"]],
       [factor |-> "Size", impact |-> "Positive",
        description |-> [arg |-> body.area,
                         text |-> "sq.ft provides adequate living space for the market"]],
       [factor |-> "Bedrooms",
        impact |-> IF Geq(ToNumber(body.bedrooms), Num(3)) THEN "Positive" ELSE "Neutral",
        description |-> [arg |-> body.bedrooms,
                         text |-> IF Geq(ToNumber(body.bedrooms), Num(3))
                                  THEN "bedrooms meet strong market demand"
                                  ELSE "bedrooms are adequate for the area"]] >>

PriceEstimatorResponse(body) ==
    [estimatedPrice |-> estimatedPrice(body),
     confidence |-> MathRound(confidence(body)),
     factors |-> factors(body),
     message |-> "Price estimate generated successfully"]

----------------------------------------------------------------------------
(* POST /api/deal-evaluator *)

\* variant: the operands the other way round
priceRatioInverted(body) ==
    Div(ToNumber(body.estimatedMarketValue), ToNumber(body.propertyPrice))

priceRatio(body) ==
    Div(ToNumber(body.propertyPrice), ToNumber(body.estimatedMarketValue))

\* a < b
Lt(a, b) == Leq(a, b) /\ ~Leq(b, a)

\* variant: the thresholds compared with <
DealEvaluationStrict(ratio) ==
    IF Lt(ratio, Frac(85, 100)) THEN
        [dealScore |-> "Buy", confidenceLevel |-> 90,
         aiExplanation |-> "This is an excellent buying opportunity."]
    ELSE IF Lt(ratio, Frac(95, 100)) THEN
        [dealScore |-> "Buy", confidenceLevel |-> 80,
         aiExplanation |-> "This is a good buying opportunity."]
    ELSE IF Lt(ratio, Frac(105, 100)) THEN
        [dealScore |-> "Hold", confidenceLevel |-> 75,
         aiExplanation |-> "This property is priced close to its estimated market value."]
    ELSE IF Lt(ratio, Frac(115, 100)) THEN
        [dealScore |-> "Hold", confidenceLevel |-> 70,
         aiExplanation |-> "This property is priced above its estimated market value."]
    ELSE
        [dealScore |-> "Avoid", confidenceLevel |-> 85,
         aiExplanation |-> "This property is significantly overpriced."]

\* variant: the two Buy tiers tested in the other order
DealEvaluationSwapped(ratio) ==
    IF Leq(ratio, Frac(95, 100)) THEN
        [dealScore |-> "Buy", confidenceLevel |-> 80,
         aiExplanation |-> "This is a good buying opportunity."]
    ELSE IF Leq(ratio, Frac(85, 100)) THEN
        [dealScore |-> "Buy", confidenceLevel |-> 90,
         aiExplanation |-> "This is an excellent buying opportunity."]
    ELSE IF Leq(ratio, Frac(105, 100)) THEN
        [dealScore |-> "Hold", confidenceLevel |-> 75,
         aiExplanation |-> "This property is priced close to its estimated market value."]
    ELSE IF Leq(ratio, Frac(115, 100)) THEN
        [dealScore |-> "Hold", confidenceLevel |-> 70,
         aiExplanation |-> "This property is priced above its estimated market value."]
    ELSE
        [dealScore |-> "Avoid", confidenceLevel |-> 85,
         aiExplanation |-> "This property is significantly overpriced."]

\* the if / else-if chain; aiExplanation is the template's opening sentence
DealEvaluation(ratio) ==
    IF Leq(ratio, Frac(85, 100)) THEN
        [dealScore |-> "Buy", confidenceLevel |-> 90,
         aiExplanation |-> "This is an excellent buying opportunity."]
    ELSE IF Leq(ratio, Frac(95, 100)) THEN
        [dealScore |-> "Buy", confidenceLevel |-> 80,
         aiExplanation |-> "This is a good buying opportunity."]
    ELSE IF Leq(ratio, Frac(105, 100)) THEN
        [dealScore |-> "Hold", confidenceLevel |-> 75,
         aiExplanation |-> "This property is priced close to its estimated market value."]
    ELSE IF Leq(ratio, Frac(115, 100)) THEN
        [dealScore |-> "Hold", confidenceLevel |-> 70,
         aiExplanation |-> "This property is priced above its estimated market value."]
    ELSE
        [dealScore |-> "Avoid", confidenceLevel |-> 85,
         aiExplanation |-> "This property is significantly overpriced."]

DealEvaluatorResponse(body) ==
    LET e == DealEvaluation(priceRatio(body))
    IN  [dealScore |-> e.dealScore,
         confidenceLevel |-> e.confidenceLevel,
         aiExplanation |-> e.aiExplanation,
         message |-> "Deal evaluation completed successfully"]

----------------------------------------------------------------------------
(* POST /api/location-analyzer *)

safetyRatings == <<"A+", "A", "B+", "B", "C+">>

nearbySchools ==
    <<"Lincoln Elementary School (0.5 miles)", "Riverside Middle School (1.2 miles)",
      "Central High School (1.8 miles)", "St. Mary's Academy (2.1 miles)",
      "Oakwood Charter School (2.5 miles)", "Maple Elementary School (1.0 miles)",
      "Valley Middle School (1.5 miles)", "Riverside High School (2.0 miles)">>

transportAccess ==
    <<"Metro Station - 0.3 miles", "Bus Stop #15 - 0.1 miles", "Bus Stop #23 - 0.4 miles",
      "Train Station - 1.5 miles", "Bike Path Access - 0.2 miles",
      "Express Bus Route - 0.6 miles", "Park & Ride - 2.0 miles",
      "Light Rail Station - 1.8 miles">>

summaries ==
    << [overallScore |-> 85, rating |-> "Excellent",
        description |-> "This location offers excellent amenities, good schools, and convenient transportation access."],
       [overallScore |-> 78, rating |-> "Good",
        description |-> "A solid neighborhood with good schools and decent transportation options."],
       [overallScore |-> 92, rating |-> "Excellent",
        description |-> "Premium location with top-rated schools and excellent transport connectivity."] >>

\* Math.floor(Math.random() * length): any index of the list
RandomIndex(list) == 0 .. (Len(list) - 1)

\* list.slice(from, to)
Slice(list, from, to) == SubSeq(list, from + 1, IF to < Len(list) THEN to ELSE Len(list))

\* variant: slice(0, 4)
LocationAnalyzerResponseFour(body, r1, r2) ==
    [safetyRating |-> safetyRatings[r1 + 1],
     nearbySchools |-> Slice(nearbySchools, 0, 4),
     transportAccess |-> Slice(transportAccess, 0, 4),
     summary |-> summaries[r2 + 1],
     message |-> "Location analysis completed successfully"]

\* r1 and r2 are the two random indices; the location of the body is not used
LocationAnalyzerResponse(body, r1, r2) ==
    [safetyRating |-> safetyRatings[r1 + 1],
     nearbySchools |-> Slice(nearbySchools, 0, 5),
     transportAccess |-> Slice(transportAccess, 0, 5),
     summary |-> summaries[r2 + 1],
     message |-> "Location analysis completed successfully"]

----------------------------------------------------------------------------
(* GET /api/dashboard/..., POST /api/reports/:reportId/export-pdf *)

mockSearchHistory ==
    << [id |-> 1, type |-> "Price Estimator", location |-> "San Francisco, CA",
        propertyType |-> "House", bedrooms |-> 3, bathrooms |-> 2, area |-> 2000,
        estimatedPrice |-> 850000, date |-> "2024-01-15T10:30:00Z", status |-> "completed"],
       [id |-> 2, type |-> "Location Analyzer", location |-> "Downtown Seattle, WA",
        safetyRating |-> "A+", nearbySchools |-> 5, transportOptions |-> 4,
        date |-> "2024-01-14T14:20:00Z", status |-> "completed"],
       [id |-> 3, type |-> "Deal Evaluator", location |-> "Austin, TX",
        propertyPrice |-> 450000, marketValue |-> 500000, dealScore |-> "Buy",
        confidenceLevel |-> 85, date |-> "2024-01-13T09:15:00Z", status |-> "completed"],
       [id |-> 4, type |-> "Price Estimator", location |-> "Miami, FL",
        propertyType |-> "Apartment", bedrooms |-> 2, bathrooms |-> 1, area |-> 1200,
        estimatedPrice |-> 320000, date |-> "2024-01-12T16:45:00Z", status |-> "completed"] >>

mockGeneratedReports ==
    << [id |-> 1, title |-> "San Francisco Property Analysis", type |-> "Price Estimator",
        date |-> "2024-01-15T10:30:00Z",
        summary |-> "3-bedroom house in San Francisco estimated at $850,000",
        status |-> "completed", downloadUrl |-> "#"],
       [id |-> 2, title |-> "Seattle Neighborhood Report", type |-> "Location Analyzer",
        date |-> "2024-01-14T14:20:00Z",
        summary |-> "Downtown Seattle analysis with A+ safety rating",
        status |-> "completed", downloadUrl |-> "#"],
       [id |-> 3, title |-> "Austin Investment Evaluation", type |-> "Deal Evaluator",
        date |-> "2024-01-13T09:15:00Z",
        summary |-> "Property deal scored as \"Buy\" with 85% confidence",
        status |-> "completed", downloadUrl |-> "#"] >>

SearchHistoryResponse ==
    [searchHistory |-> mockSearchHistory,
     message |-> "Search history retrieved successfully"]

GeneratedReportsResponse ==
    [generatedReports |-> mockGeneratedReports,
     message |-> "Generated reports retrieved successfully"]

\* variant: the link points back at the export route
ExportPdfResponseSamePath(params) ==
    [success |-> TRUE,
     downloadUrl |-> <<"/api/reports/", params.reportId, "/export-pdf">>,
     message |-> "PDF report generated successfully"]

\* the template string is kept as its three parts
ExportPdfResponse(params) ==
    [success |-> TRUE,
     downloadUrl |-> <<"/api/reports/", params.reportId, "/download-pdf">>,
     message |-> "PDF report generated successfully"]

----------------------------------------------------------------------------
(* Requests *)

PropertyTypes == {"House", "Apartment", "Land"}
MinBedrooms == 0
MaxBedrooms == 10
MinBathrooms == 0
MaxBathrooms == 10
MinArea == 100
MaxArea == 50000

IsInteger(v) == v.k = "num" /\ v.d > 0 /\ v.n % v.d = 0
IsHalfStep(v) == v.k = "num" /\ v.d > 0 /\ (2 * v.n) % v.d = 0
InRange(v, lo, hi) == v.k = "num" /\ Leq(Num(lo), ToNumber(v)) /\ Leq(ToNumber(v), Num(hi))

\* the constraints of the form's inputs: required, min, max, step
ValidBedrooms(v) == IsInteger(v) /\ InRange(v, MinBedrooms, MaxBedrooms)
ValidBathrooms(v) == IsHalfStep(v) /\ InRange(v, MinBathrooms, MaxBathrooms)
ValidArea(v) == IsInteger(v) /\ InRange(v, MinArea, MaxArea)
ValidPriceRequest(body) ==
    /\ body.propertyType \in PropertyTypes
    /\ ValidBedrooms(body.bedrooms)
    /\ ValidBathrooms(body.bathrooms)
    /\ ValidArea(body.area)

Locations == {"San Francisco, CA"}

AreaSamples ==
    ((MinArea - 1) .. (MinArea + AreaWindow)) \cup {2450, 2500, MaxArea - 1, MaxArea, MaxArea + 1}

\* every body a client may post to the price estimator, valid or not
PriceRequests ==
    [propertyType : PropertyTypes \cup {"Villa"},
     bedrooms : {JsInt(k) : k \in (MinBedrooms - 1) .. (MaxBedrooms + 1)} \cup {JsEmpty, JsNaN},
     bathrooms : {JsNum(h, 2) : h \in (2 * MinBathrooms - 1) .. (2 * MaxBathrooms + 1)}
                 \cup {JsEmpty, JsNaN},
     area : {JsInt(a) : a \in AreaSamples} \cup {JsEmpty, JsNaN},
     location : Locations]

DealAmounts ==
    {JsInt(k) : k \in ((-2) .. MaxDeal) \cup {350000, 400000}} \cup {JsEmpty, JsNaN}

\* every body a client may post to the deal evaluator
DealRequests ==
    [propertyPrice : DealAmounts, estimatedMarketValue : DealAmounts, location : Locations]

\* the few bodies the side-by-side callers choose from
FewPriceRequests ==
    [propertyType : {"House", "Land"},
     bedrooms : {JsInt(2), JsInt(4)},
     bathrooms : {JsNum(5, 2)},
     area : {JsInt(2500)},
     location : Locations]

FewDealRequests ==
    [propertyPrice : {JsInt(17), JsInt(20), JsInt(24)},
     estimatedMarketValue : {JsInt(20)},
     location : Locations]

----------------------------------------------------------------------------
(* The server: each handler registers a setTimeout callback that answers *)

Callers == 1 .. NumCallers

Delay(ep) ==
    IF ep = PriceEstimatorPath THEN 1500
    ELSE IF ep = DealEvaluatorPath THEN 1800
    ELSE IF ep \in {LocationAnalyzerPath, ExportPdfPath} THEN 2000
    ELSE 500

\* a callback registered earlier with a delay not longer fires first
CanFire(i) ==
    /\ i \in 1 .. Len(timers)
    /\ \A j \in 1 .. (i - 1) : Delay(timers[j].ep) > Delay(timers[i].ep)

Remove(seq, i) == SubSeq(seq, 1, i - 1) \o SubSeq(seq, i + 1, Len(seq))

\* variant: the fields kept in variables all requests of an endpoint share, so a
\* callback sees those of the latest request
CapturedShared(i) ==
    LET same == {j \in 1 .. Len(timers) : timers[j].ep = timers[i].ep}
        last == CHOOSE j \in same : \A k \in same : k <= j
    IN  timers[last].body

\* const { ... } = req.body: the callback closes over its own request's fields
Captured(i) == timers[i].body

\* the handler up to setTimeout
Receive(from, c, ep, body) ==
    timers' = Append(timers, [from |-> from, c |-> c, ep |-> ep, body |-> body])

\* variant: a callback that ends without res.json
AnswerNothing(i, data) ==
    /\ timers' = Remove(timers, i)
    /\ UNCHANGED <<call, page, shell>>

\* res.json(data) of the callback i
Answer(i, data) ==
    /\ timers' = Remove(timers, i)
    /\ IF timers[i].from = "api"
       THEN /\ call' = [call EXCEPT ![timers[i].c] =
                          [st |-> "answered", ep |-> timers[i].ep,
                           body |-> call[timers[i].c].body, data |-> data]]
            /\ UNCHANGED page
       ELSE /\ page' = [page EXCEPT !.net = "replied", !.response = <<data>>]
            /\ UNCHANGED call
    /\ UNCHANGED shell

\* an API client posts a body and waits for the answer before its next call
PostPriceEstimator(c, body) ==
    /\ call[c].st # "pending"
    /\ Receive("api", c, PriceEstimatorPath, body)
    /\ call' = [call EXCEPT ![c] = [st |-> "pending", ep |-> PriceEstimatorPath, body |-> body]]
    /\ UNCHANGED <<page, shell>>

PostDealEvaluator(c, body) ==
    /\ call[c].st # "pending"
    /\ Receive("api", c, DealEvaluatorPath, body)
    /\ call' = [call EXCEPT ![c] = [st |-> "pending", ep |-> DealEvaluatorPath, body |-> body]]
    /\ UNCHANGED <<page, shell>>

PriceEstimatorTimeout(i) ==
    /\ CanFire(i)
    /\ timers[i].ep = PriceEstimatorPath
    /\ Answer(i, PriceEstimatorResponse(Captured(i)))

DealEvaluatorTimeout(i) ==
    /\ CanFire(i)
    /\ timers[i].ep = DealEvaluatorPath
    /\ Answer(i, DealEvaluatorResponse(Captured(i)))

\* any other request of an API client
Request(c, ep, body) ==
    /\ call[c].st # "pending"
    /\ Receive("api", c, ep, body)
    /\ call' = [call EXCEPT ![c] = [st |-> "pending", ep |-> ep, body |-> body]]
    /\ UNCHANGED <<page, shell>>

PostLocationAnalyzer(c, body) == Request(c, LocationAnalyzerPath, body)

GetSearchHistory(c) == Request(c, SearchHistoryPath, << >>)

GetGeneratedReports(c) == Request(c, GeneratedReportsPath, << >>)

\* req.params of the route is what the callback closes over
PostExportPdf(c, reportId) == Request(c, ExportPdfPath, [reportId |-> reportId])

LocationAnalyzerTimeout(i) ==
    /\ CanFire(i)
    /\ timers[i].ep = LocationAnalyzerPath
    /\ \E r1 \in RandomIndex(safetyRatings), r2 \in RandomIndex(summaries) :
          Answer(i, LocationAnalyzerResponse(Captured(i), r1, r2))

SearchHistoryTimeout(i) ==
    /\ CanFire(i)
    /\ timers[i].ep = SearchHistoryPath
    /\ Answer(i, SearchHistoryResponse)

GeneratedReportsTimeout(i) ==
    /\ CanFire(i)
    /\ timers[i].ep = GeneratedReportsPath
    /\ Answer(i, GeneratedReportsResponse)

ExportPdfTimeout(i) ==
    /\ CanFire(i)
    /\ timers[i].ep = ExportPdfPath
    /\ Answer(i, ExportPdfResponse(Captured(i)))

----------------------------------------------------------------------------
(* ThemeProvider: isDarkMode, localStorage 'theme', the class list of the     *)
(* document root, and whether the effect of the last render has yet to run    *)

\* useState initializer: saved ? saved === 'dark' : false
SavedTheme(stored) == IF stored # "none" THEN stored = "dark" ELSE FALSE

\* a provider mounted in a new document: the effect of the first render is due
MountTheme(stored) ==
    [isDarkMode |-> SavedTheme(stored), stored |-> stored, rootDark |-> FALSE,
     effect |-> TRUE]

\* the first visit: nothing stored
InitTheme == MountTheme("none")

\* the light theme in effect
LightTheme == [isDarkMode |-> FALSE, stored |-> "light", rootDark |-> FALSE, effect |-> FALSE]

\* variant: the class is added and never removed
EffectOfAddOnly(t) ==
    [t EXCEPT !.stored = IF t.isDarkMode THEN "dark" ELSE "light",
              !.rootDark = t.rootDark \/ t.isDarkMode,
              !.effect = FALSE]

\* the body of useEffect for the rendered isDarkMode
EffectOf(t) ==
    [t EXCEPT !.stored = IF t.isDarkMode THEN "dark" ELSE "light",
              !.rootDark = t.isDarkMode,
              !.effect = FALSE]

\* the effect runs after the render that changed isDarkMode
ThemeEffect ==
    /\ theme.effect
    /\ theme' = EffectOf(theme)
    /\ UNCHANGED <<timers, call, page, app>>

\* setIsDarkMode(!isDarkMode); React runs an effect still due before it renders again
toggleTheme ==
    /\ LET t == IF theme.effect THEN EffectOf(theme) ELSE theme
       IN  theme' = [t EXCEPT !.isDarkMode = ~t.isDarkMode, !.effect = TRUE]
    /\ UNCHANGED <<timers, call, page, app>>

----------------------------------------------------------------------------
(* App: authentication state and the route table *)

Paths ==
    {"/", "/login", "/register", "/dashboard", "/price-estimator", "/location-analyzer",
     "/deal-evaluator"}

\* useState(false), useState(null); the router starts at the home page
InitApp == [isAuthenticated |-> FALSE, user |-> << >>, history |-> << "/" >>]

\* the router's current location
Location(a) == a.history[Len(a.history)]

Component(name) == [type |-> name, to |-> ""]
Navigate(to) == [type |-> "Navigate", to |-> to]

\* variant: the deal evaluator route without its isAuthenticated test
RouteElementOpenDealEvaluator(path, isAuthenticated) ==
    IF path = "/" THEN Component("HomePage")
    ELSE IF path = "/login"
         THEN IF ~isAuthenticated THEN Component("Login") ELSE Navigate("/dashboard")
    ELSE IF path = "/register"
         THEN IF ~isAuthenticated THEN Component("Register") ELSE Navigate("/dashboard")
    ELSE IF path = "/dashboard"
         THEN IF isAuthenticated THEN Component("Dashboard") ELSE Navigate("/login")
    ELSE IF path = "/price-estimator"
         THEN IF isAuthenticated THEN Component("PriceEstimator") ELSE Navigate("/login")
    ELSE IF path = "/location-analyzer"
         THEN IF isAuthenticated THEN Component("LocationAnalyzer") ELSE Navigate("/login")
    ELSE Component("DealEvaluator")

\* <Routes>: the element of the route that matches the path
RouteElement(path, isAuthenticated) ==
    IF path = "/" THEN Component("HomePage")
    ELSE IF path = "/login"
         THEN IF ~isAuthenticated THEN Component("Login") ELSE Navigate("/dashboard")
    ELSE IF path = "/register"
         THEN IF ~isAuthenticated THEN Component("Register") ELSE Navigate("/dashboard")
    ELSE IF path = "/dashboard"
         THEN IF isAuthenticated THEN Component("Dashboard") ELSE Navigate("/login")
    ELSE IF path = "/price-estimator"
         THEN IF isAuthenticated THEN Component("PriceEstimator") ELSE Navigate("/login")
    ELSE IF path = "/location-analyzer"
         THEN IF isAuthenticated THEN Component("LocationAnalyzer") ELSE Navigate("/login")
    ELSE IF isAuthenticated THEN Component("DealEvaluator") ELSE Navigate("/login")

\* what App renders inside <Routes> in the current state
Rendered == RouteElement(Location(app), app.isAuthenticated)

\* the userData the Login and Register forms hand to onLogin
Users == {[email |-> "demo@example.com"], [email |-> "agent@example.com"]}

\* onLogin of the Login or Register page
handleLogin(userData) ==
    /\ Rendered.type \in {"Login", "Register"}
    /\ app' = [app EXCEPT !.user = <<userData>>, !.isAuthenticated = TRUE]
    /\ UNCHANGED <<timers, call, page, theme>>

\* variant: the user is kept
handleLogoutKeepsUser ==
    /\ app.isAuthenticated
    /\ app' = [app EXCEPT !.isAuthenticated = FALSE]
    /\ UNCHANGED <<timers, call, page, theme>>

\* onLogout of the Navigation bar, which is rendered only while isAuthenticated
handleLogout ==
    /\ app.isAuthenticated
    /\ app' = [app EXCEPT !.user = << >>, !.isAuthenticated = FALSE]
    /\ UNCHANGED <<timers, call, page, theme>>

\* <Navigate to=... replace />: the current history entry is replaced
NavigateEffect ==
    /\ Rendered.type = "Navigate"
    /\ app' = [app EXCEPT !.history[Len(app.history)] = Rendered.to]
    /\ UNCHANGED <<timers, call, page, theme>>

\* a <Link> is followed: a new history entry
Visit(path) ==
    /\ Len(app.history) < MaxHistory
    /\ app' = [app EXCEPT !.history = Append(app.history, path)]
    /\ UNCHANGED <<timers, call, page, theme>>

\* the browser's back button
Back ==
    /\ Len(app.history) > 1
    /\ app' = [app EXCEPT !.history = SubSeq(app.history, 1, Len(app.history) - 1)]
    /\ UNCHANGED <<timers, call, page, theme>>

\* the document is loaded again: App starts from its initial state at the same URL
Reload ==
    /\ app' = [InitApp EXCEPT !.history = app.history]
    /\ theme' = MountTheme(theme.stored)
    /\ UNCHANGED <<timers, call, page>>

\* a signed-in user who went from the home page over the login to the path
SignedInAt(path) ==
    [isAuthenticated |-> TRUE, user |-> << [email |-> "demo@example.com"] >>,
     history |-> << "/", "/dashboard", path >>]

----------------------------------------------------------------------------
(* The PriceEstimator page *)

InitPage ==
    [formData |-> [propertyType |-> "House", bedrooms |-> JsEmpty, bathrooms |-> JsEmpty,
                   area |-> JsEmpty, location |-> ""],
     isLoading |-> FALSE,
     estimate |-> << >>,
     error |-> "",
     net |-> "none",
     sent |-> << >>,
     response |-> << >>]

\* what the user can put into each input
FormValues(name) ==
    IF name = "propertyType" THEN PropertyTypes
    ELSE IF name = "bedrooms" THEN {JsEmpty, JsInt(MinBedrooms), JsInt(3), JsInt(MaxBedrooms)}
    ELSE IF name = "bathrooms" THEN {JsEmpty, JsInt(MinBathrooms), JsNum(1, 2), JsInt(MaxBathrooms)}
    ELSE IF name = "area" THEN {JsEmpty, JsInt(MinArea), JsInt(150), JsInt(MaxArea)}
    ELSE {""} \cup Locations

FormFields == {"propertyType", "bedrooms", "bathrooms", "area", "location"}

\* the browser submits the form only when every input satisfies its constraints
FormIsValid(formData) ==
    /\ ValidPriceRequest(formData)
    /\ formData.location # ""

PEHandleChange(name, value) ==
    /\ Rendered.type = "PriceEstimator"
    /\ page' = [page EXCEPT !.formData = [page.formData EXCEPT ![name] = value]]
    /\ UNCHANGED <<timers, call, shell>>

\* variant: a handleSubmit that leaves the last estimate on the page
PEHandleSubmitKeepsEstimate(reaches) ==
    /\ Rendered.type = "PriceEstimator"
    /\ ~page.isLoading
    /\ FormIsValid(page.formData)
    /\ page' = [page EXCEPT !.isLoading = TRUE, !.error = "",
                            !.sent = <<page.formData>>,
                            !.net = IF reaches THEN "sent" ELSE "lost",
                            !.response = << >>]
    /\ IF reaches
       THEN Receive("page", 0, PriceEstimatorPath, page.formData)
       ELSE UNCHANGED timers
    /\ UNCHANGED <<call, shell>>

\* handleSubmit up to the await; the POST reaches the server or fails on the way
PEHandleSubmit(reaches) ==
    /\ Rendered.type = "PriceEstimator"
    /\ ~page.isLoading
    /\ FormIsValid(page.formData)
    /\ page' = [page EXCEPT !.isLoading = TRUE, !.error = "", !.estimate = << >>,
                            !.sent = <<page.formData>>,
                            !.net = IF reaches THEN "sent" ELSE "lost",
                            !.response = << >>]
    /\ IF reaches
       THEN Receive("page", 0, PriceEstimatorPath, page.formData)
       ELSE UNCHANGED timers
    /\ UNCHANGED <<call, shell>>

\* the four factors the page writes itself
PageFactors(formData) ==
    << [factor |-> "Property Type", impact |-> "Positive",
        description |-> [arg |-> formData.propertyType,
                         text |-> "properties have good market value"]],
       [factor |-> "Location", impact |-> "Positive",
        description |-> [arg |-> formData.location, text |-> "is a desirable area"]],
       [factor |-> "Size", impact |-> "Positive",
        description |-> [arg |-> formData.area,
                         text |-> "sq.ft provides good living space"]],
       [factor |-> "Bedrooms", impact |-> "Positive",
        description |-> [arg |-> formData.bedrooms,
                         text |-> "bedrooms meet market demand"]] >>

\* the try branch after the await, then finally
PEResolve ==
    /\ Rendered.type = "PriceEstimator"
    /\ page.net = "replied"
    /\ LET data == page.response[1]
           formData == page.sent[1]
       IN  page' = [page EXCEPT
                      !.estimate = << [price |-> data.estimatedPrice,
                                       confidence |-> data.confidence,
                                       factors |-> IF "factors" \in DOMAIN data
                                                   THEN data.factors
                                                   ELSE PageFactors(formData)] >>,
                      !.isLoading = FALSE,
                      !.net = "none", !.sent = << >>, !.response = << >>]
    /\ UNCHANGED <<timers, call, shell>>

\* variant: the bathrooms parsed with parseInt
FallbackEstimateWholeBathrooms(formData) ==
    LET bedroomPart == Mul(parseInt(formData.bedrooms), Num(25000))
        bathroomPart == Mul(parseInt(formData.bathrooms), Num(15000))
        areaPart == Mul(parseInt(formData.area), Num(100))
        price == Mul(Add(Add(Add(Num(250000), bedroomPart), bathroomPart), areaPart),
                     typeMultiplier(formData.propertyType))
    IN  [price |-> MathRound(price),
         confidence |-> Num(85),
         factors |-> PageFactors(formData)]

\* the catch branch: the page's own calculation
FallbackEstimate(formData) ==
    LET bedroomPart == Mul(parseInt(formData.bedrooms), Num(25000))
        bathroomPart == Mul(parseFloat(formData.bathrooms), Num(15000))
        areaPart == Mul(parseInt(formData.area), Num(100))
        price == Mul(Add(Add(Add(Num(250000), bedroomPart), bathroomPart), areaPart),
                     typeMultiplier(formData.propertyType))
    IN  [price |-> MathRound(price),
         confidence |-> Num(85),
         factors |-> PageFactors(formData)]

\* the POST is rejected (the request or its answer was lost); then finally
PEReject ==
    /\ Rendered.type = "PriceEstimator"
    /\ page.net \in {"lost", "replied"}
    /\ page' = [page EXCEPT !.estimate = <<FallbackEstimate(page.sent[1])>>,
                            !.isLoading = FALSE,
                            !.net = "none", !.sent = << >>, !.response = << >>]
    /\ UNCHANGED <<timers, call, shell>>

----------------------------------------------------------------------------
(* The DealEvaluator page *)

InitDealEvaluator ==
    [formData |-> [propertyPrice |-> JsEmpty, estimatedMarketValue |-> JsEmpty,
                   location |-> ""],
     isLoading |-> FALSE,
     evaluation |-> << >>,
     error |-> "",
     net |-> "none",
     sent |-> << >>,
     response |-> << >>]

\* what the user can put into each input
DEFormValues(name) ==
    IF name = "location" THEN {""} \cup Locations
    ELSE {JsEmpty, JsInt(0), JsInt(17), JsInt(20), JsInt(24)}

DEFormFields == {"propertyPrice", "estimatedMarketValue", "location"}

DEHandleChange(name, value) ==
    /\ Rendered.type = "DealEvaluator"
    /\ page' = [page EXCEPT !.formData = [page.formData EXCEPT ![name] = value]]
    /\ UNCHANGED <<timers, call, shell>>

\* variant: the test of handleSubmit without the location
DEIncompleteNoLocation(formData) ==
    \/ formData.propertyPrice.k = "empty"
    \/ formData.estimatedMarketValue.k = "empty"

\* !formData.propertyPrice || !formData.estimatedMarketValue || !formData.location
\* on the strings of the inputs: only '' is falsy
DEIncomplete(formData) ==
    \/ formData.propertyPrice.k = "empty"
    \/ formData.estimatedMarketValue.k = "empty"
    \/ formData.location = ""

\* handleSubmit up to the await; the POST reaches the server or fails on the way
DEHandleSubmit(reaches) ==
    /\ Rendered.type = "DealEvaluator"
    /\ IF DEIncomplete(page.formData)
       THEN UNCHANGED vars
       ELSE /\ page' = [page EXCEPT !.isLoading = TRUE, !.error = "", !.evaluation = << >>,
                                    !.sent = <<page.formData>>,
                                    !.net = IF reaches THEN "sent" ELSE "lost",
                                    !.response = << >>]
            /\ IF reaches
               THEN Receive("page", 0, DealEvaluatorPath, page.formData)
               ELSE UNCHANGED timers
            /\ UNCHANGED <<call, shell>>

\* variant: the submit button disabled by missing fields only
DEButtonDisabledNotByLoading ==
    \/ page.formData.propertyPrice.k = "empty"
    \/ page.formData.estimatedMarketValue.k = "empty"
    \/ page.formData.location = ""

\* disabled={isLoading || !formData.propertyPrice || ...} of the submit button
DEButtonDisabled ==
    \/ page.isLoading
    \/ page.formData.propertyPrice.k = "empty"
    \/ page.formData.estimatedMarketValue.k = "empty"
    \/ page.formData.location = ""

\* the browser's validation: required inputs, type number with the default step
DEFormIsValid(formData) ==
    /\ IsInteger(formData.propertyPrice)
    /\ IsInteger(formData.estimatedMarketValue)
    /\ formData.location # ""

\* the user submits the form, which the browser allows with the button enabled
\* and the inputs valid
DEClickSubmit(reaches) ==
    /\ Rendered.type = "DealEvaluator"
    /\ ~DEButtonDisabled
    /\ DEFormIsValid(page.formData)
    /\ DEHandleSubmit(reaches)

\* a || b on strings and on numbers
OrString(a, b) == IF a = "" THEN b ELSE a
OrNumber(a, b) == IF a = 0 THEN b ELSE a

\* variant: the confidence level not taken from the response
DEEvaluationOfAssumed(data) ==
    [dealScore |-> OrString(data.dealScore, "Buy"),
     confidenceLevel |-> 85,
     aiExplanation |-> OrString(data.aiExplanation,
                                "This appears to be a good investment opportunity.")]

\* the object handed to setEvaluation in the try branch
DEEvaluationOf(data) ==
    [dealScore |-> OrString(data.dealScore, "Buy"),
     confidenceLevel |-> OrNumber(data.confidenceLevel, 85),
     aiExplanation |-> OrString(data.aiExplanation,
                                "This appears to be a good investment opportunity.")]

\* the try branch after the await, then finally
DEResolve ==
    /\ Rendered.type = "DealEvaluator"
    /\ page.net = "replied"
    /\ page' = [page EXCEPT !.evaluation = <<DEEvaluationOf(page.response[1])>>,
                            !.isLoading = FALSE,
                            !.net = "none", !.sent = << >>, !.response = << >>]
    /\ UNCHANGED <<timers, call, shell>>

\* variant: the last branch assigns nothing, the initial values stay
PageDealEvaluationDefaults(ratio) ==
    IF Leq(ratio, Frac(85, 100)) THEN
        [dealScore |-> "Buy", confidenceLevel |-> 90,
         aiExplanation |-> "This is an excellent buying opportunity."]
    ELSE IF Leq(ratio, Frac(95, 100)) THEN
        [dealScore |-> "Buy", confidenceLevel |-> 80,
         aiExplanation |-> "This is a good buying opportunity."]
    ELSE IF Leq(ratio, Frac(105, 100)) THEN
        [dealScore |-> "Hold", confidenceLevel |-> 75,
         aiExplanation |-> "This property is priced close to its estimated market value."]
    ELSE IF Leq(ratio, Frac(115, 100)) THEN
        [dealScore |-> "Hold", confidenceLevel |-> 70,
         aiExplanation |-> "This property is priced above its estimated market value."]
    ELSE
        [dealScore |-> "Avoid", confidenceLevel |-> 70, aiExplanation |-> ""]

\* the page's own if / else-if chain; aiExplanation is the template's opening sentence
PageDealEvaluation(ratio) ==
    IF Leq(ratio, Frac(85, 100)) THEN
        [dealScore |-> "Buy", confidenceLevel |-> 90,
         aiExplanation |-> "This is an excellent buying opportunity."]
    ELSE IF Leq(ratio, Frac(95, 100)) THEN
        [dealScore |-> "Buy", confidenceLevel |-> 80,
         aiExplanation |-> "This is a good buying opportunity."]
    ELSE IF Leq(ratio, Frac(105, 100)) THEN
        [dealScore |-> "Hold", confidenceLevel |-> 75,
         aiExplanation |-> "This property is priced close to its estimated market value."]
    ELSE IF Leq(ratio, Frac(115, 100)) THEN
        [dealScore |-> "Hold", confidenceLevel |-> 70,
         aiExplanation |-> "This property is priced above its estimated market value."]
    ELSE
        [dealScore |-> "Avoid", confidenceLevel |-> 85,
         aiExplanation |-> "This property is significantly overpriced."]

\* variant: the ratio of the value to the price
FallbackEvaluationInverted(formData) ==
    PageDealEvaluation(Div(parseFloat(formData.estimatedMarketValue),
                           parseFloat(formData.propertyPrice)))

\* the catch branch: the page's own calculation
FallbackEvaluation(formData) ==
    PageDealEvaluation(Div(parseFloat(formData.propertyPrice),
                           parseFloat(formData.estimatedMarketValue)))

\* variant: a catch branch that reports the failure and shows nothing
DERejectWithError ==
    /\ Rendered.type = "DealEvaluator"
    /\ page.net \in {"lost", "replied"}
    /\ page' = [page EXCEPT !.error = "Failed to evaluate deal",
                            !.isLoading = FALSE,
                            !.net = "none", !.sent = << >>, !.response = << >>]
    /\ UNCHANGED <<timers, call, shell>>

\* the POST is rejected (the request or its answer was lost); then finally
DEReject ==
    /\ Rendered.type = "DealEvaluator"
    /\ page.net \in {"lost", "replied"}
    /\ page' = [page EXCEPT !.evaluation = <<FallbackEvaluation(page.sent[1])>>,
                            !.isLoading = FALSE,
                            !.net = "none", !.sent = << >>, !.response = << >>]
    /\ UNCHANGED <<timers, call, shell>>

----------------------------------------------------------------------------
(* The LocationAnalyzer page; the text of its input is a sequence of characters *)

InitLocationAnalyzer ==
    [location |-> << >>,
     isLoading |-> FALSE,
     analysis |-> << >>,
     error |-> "",
     net |-> "none",
     sent |-> << >>,
     response |-> << >>]

\* what the user can type into the input
LocationInputs ==
    { << >>, << " " >>, << " ", "\t" >>, << "S", "F" >>, << " ", "S", "F", " " >> }

WhiteSpace == {" ", "\t", "\n"}

RECURSIVE TrimStart(_)
TrimStart(s) ==
    IF s = << >> THEN s
    ELSE IF Head(s) \in WhiteSpace THEN TrimStart(Tail(s)) ELSE s

RECURSIVE TrimEnd(_)
TrimEnd(s) ==
    IF s = << >> THEN s
    ELSE IF s[Len(s)] \in WhiteSpace THEN TrimEnd(SubSeq(s, 1, Len(s) - 1)) ELSE s

\* String.prototype.trim
trim(s) == TrimEnd(TrimStart(s))

\* onChange: setLocation(e.target.value)
LAHandleChange(value) ==
    /\ Rendered.type = "LocationAnalyzer"
    /\ page' = [page EXCEPT !.location = value]
    /\ UNCHANGED <<timers, call, shell>>

\* handleSubmit up to the await; the POST reaches the server or fails on the way
LAHandleSubmit(reaches) ==
    /\ Rendered.type = "LocationAnalyzer"
    /\ IF trim(page.location) = << >>
       THEN UNCHANGED vars
       ELSE /\ page' = [page EXCEPT !.isLoading = TRUE, !.error = "", !.analysis = << >>,
                                    !.sent = <<page.location>>,
                                    !.net = IF reaches THEN "sent" ELSE "lost",
                                    !.response = << >>]
            /\ IF reaches
               THEN Receive("page", 0, LocationAnalyzerPath, [location |-> page.location])
               ELSE UNCHANGED timers
            /\ UNCHANGED <<call, shell>>

\* disabled={isLoading || !location.trim()} of the submit button
LAButtonDisabled == page.isLoading \/ trim(page.location) = << >>

\* the browser's validation: the input is required
LAFormIsValid == page.location # << >>

\* the user submits the form, which the browser allows with the button enabled
\* and the input valid
LAClickSubmit(reaches) ==
    /\ Rendered.type = "LocationAnalyzer"
    /\ ~LAButtonDisabled
    /\ LAFormIsValid
    /\ LAHandleSubmit(reaches)

\* the lists and the summary the try branch falls back on, field by field
DefaultSchools ==
    <<"Lincoln Elementary School (0.5 miles)", "Riverside Middle School (1.2 miles)",
      "Central High School (1.8 miles)", "St. Mary's Academy (2.1 miles)">>

DefaultTransport ==
    <<"Metro Station - 0.3 miles", "Bus Stop #15 - 0.1 miles", "Bus Stop #23 - 0.4 miles",
      "Train Station - 1.5 miles">>

DefaultSummary ==
    [overallScore |-> 85, rating |-> "Excellent",
     description |-> "This location offers excellent amenities, good schools, and convenient transportation access."]

\* response.data.field || fallback, for a field the response may lack
OrField(data, field, b) == IF field \in DOMAIN data THEN data[field] ELSE b

\* the object handed to setAnalysis in the try branch
AnalysisOf(data) ==
    [safetyRating |-> OrString(OrField(data, "safetyRating", ""), "A+"),
     nearbySchools |-> OrField(data, "nearbySchools", DefaultSchools),
     transportAccess |-> OrField(data, "transportAccess", DefaultTransport),
     summary |-> OrField(data, "summary", DefaultSummary)]

\* the try branch after the await, then finally
LAResolve ==
    /\ Rendered.type = "LocationAnalyzer"
    /\ page.net = "replied"
    /\ page' = [page EXCEPT !.analysis = <<AnalysisOf(page.response[1])>>,
                            !.isLoading = FALSE,
                            !.net = "none", !.sent = << >>, !.response = << >>]
    /\ UNCHANGED <<timers, call, shell>>

\* the catch branch: fixed mock data
FallbackAnalysis ==
    [safetyRating |-> "A+",
     nearbySchools |->
        <<"Lincoln Elementary School (0.5 miles)", "Riverside Middle School (1.2 miles)",
          "Central High School (1.8 miles)", "St. Mary's Academy (2.1 miles)",
          "Oakwood Charter School (2.5 miles)">>,
     transportAccess |->
        <<"Metro Station - 0.3 miles", "Bus Stop #15 - 0.1 miles",
          "Bus Stop #23 - 0.4 miles", "Train Station - 1.5 miles",
          "Bike Path Access - 0.2 miles">>,
     summary |->
        [overallScore |-> 85, rating |-> "Excellent",
         description |-> "This location offers excellent amenities, good schools, and convenient transportation access."]]

\* variant: a catch branch that reports the failure and shows nothing
LARejectWithError ==
    /\ Rendered.type = "LocationAnalyzer"
    /\ page.net \in {"lost", "replied"}
    /\ page' = [page EXCEPT !.error = "Failed to analyze location",
                            !.isLoading = FALSE,
                            !.net = "none", !.sent = << >>, !.response = << >>]
    /\ UNCHANGED <<timers, call, shell>>

\* the POST is rejected (the request or its answer was lost); then finally
LAReject ==
    /\ Rendered.type = "LocationAnalyzer"
    /\ page.net \in {"lost", "replied"}
    /\ page' = [page EXCEPT !.analysis = <<FallbackAnalysis>>,
                            !.isLoading = FALSE,
                            !.net = "none", !.sent = << >>, !.response = << >>]
    /\ UNCHANGED <<timers, call, shell>>

----------------------------------------------------------------------------
(* Specifications *)

\* one API client that was handed one request, any request
Init ==
    /\ timers = << >>
    /\ \E ep \in {PriceEstimatorPath, DealEvaluatorPath} :
         \E body \in (IF ep = PriceEstimatorPath THEN PriceRequests ELSE DealRequests) :
            call = [c \in Callers |->
                      IF c = 1 THEN [st |-> "ready", ep |-> ep, body |-> body]
                      ELSE [st |-> "idle"]]
    /\ page = InitPage
    /\ app = InitApp
    /\ theme = InitTheme

Next ==
    \/ /\ call[1].st = "ready"
       /\ call[1].ep = PriceEstimatorPath
       /\ PostPriceEstimator(1, call[1].body)
    \/ /\ call[1].st = "ready"
       /\ call[1].ep = DealEvaluatorPath
       /\ PostDealEvaluator(1, call[1].body)
    \/ \E i \in 1 .. Len(timers) : PriceEstimatorTimeout(i)
    \/ \E i \in 1 .. Len(timers) : DealEvaluatorTimeout(i)

Spec == Init /\ [][Next]_vars

InitServer ==
    /\ timers = << >>
    /\ call = [c \in Callers |-> [st |-> "idle"]]
    /\ page = InitPage
    /\ app = InitApp
    /\ theme = InitTheme

\* several API clients side by side, a few requests
NextServer ==
    \/ \E c \in Callers, body \in FewPriceRequests : PostPriceEstimator(c, body)
    \/ \E c \in Callers, body \in FewDealRequests : PostDealEvaluator(c, body)
    \/ \E i \in 1 .. Len(timers) : PriceEstimatorTimeout(i)
    \/ \E i \in 1 .. Len(timers) : DealEvaluatorTimeout(i)

SpecServer == InitServer /\ [][NextServer]_vars

ReportIds == {"1", "2"}

MockPriceRequests ==
    [propertyType : {"House"}, bedrooms : {JsInt(2), JsInt(4)}, bathrooms : {JsNum(5, 2)},
     area : {JsInt(2500)}, location : Locations]

MockDealRequests ==
    [propertyPrice : {JsInt(17), JsInt(24)}, estimatedMarketValue : {JsInt(20)},
     location : Locations]

MockLocationRequests == [location : Locations]

\* several API clients side by side on all the delayed endpoints
NextMock ==
    \/ \E c \in Callers, body \in MockPriceRequests : PostPriceEstimator(c, body)
    \/ \E c \in Callers, body \in MockDealRequests : PostDealEvaluator(c, body)
    \/ \E c \in Callers, body \in MockLocationRequests : PostLocationAnalyzer(c, body)
    \/ \E c \in Callers : GetSearchHistory(c)
    \/ \E c \in Callers : GetGeneratedReports(c)
    \/ \E c \in Callers, reportId \in ReportIds : PostExportPdf(c, reportId)
    \/ \E i \in 1 .. Len(timers) : PriceEstimatorTimeout(i)
    \/ \E i \in 1 .. Len(timers) : DealEvaluatorTimeout(i)
    \/ \E i \in 1 .. Len(timers) : LocationAnalyzerTimeout(i)
    \/ \E i \in 1 .. Len(timers) : SearchHistoryTimeout(i)
    \/ \E i \in 1 .. Len(timers) : GeneratedReportsTimeout(i)
    \/ \E i \in 1 .. Len(timers) : ExportPdfTimeout(i)

SpecMock == InitServer /\ [][NextMock]_vars

\* a well-formed body and one with an unknown type, a missing, an empty and an
\* out-of-range field
AnyPriceRequests ==
    {[propertyType |-> "House", bedrooms |-> JsInt(3), bathrooms |-> JsNum(5, 2),
      area |-> JsInt(2500), location |-> "San Francisco, CA"],
     [propertyType |-> "Villa", bedrooms |-> JsNaN, bathrooms |-> JsEmpty,
      area |-> JsInt(-1), location |-> "San Francisco, CA"]}

AnyDealRequests ==
    {[propertyPrice |-> JsInt(17), estimatedMarketValue |-> JsInt(20),
      location |-> "San Francisco, CA"],
     [propertyPrice |-> JsNaN, estimatedMarketValue |-> JsInt(0),
      location |-> "San Francisco, CA"]}

\* the callback i of any delayed endpoint
AnyTimeout(i) ==
    \/ PriceEstimatorTimeout(i)
    \/ DealEvaluatorTimeout(i)
    \/ LocationAnalyzerTimeout(i)
    \/ SearchHistoryTimeout(i)
    \/ GeneratedReportsTimeout(i)
    \/ ExportPdfTimeout(i)

\* the client c has called before, or is one of the MaxActive that may
MayCall(c) ==
    \/ call[c].st # "idle"
    \/ Cardinality({d \in Callers : call[d].st # "idle"}) < MaxActive

\* the API clients call every delayed endpoint with good and bad bodies
NextAnyMock ==
    \/ \E c \in Callers, body \in AnyPriceRequests :
          MayCall(c) /\ PostPriceEstimator(c, body)
    \/ \E c \in Callers, body \in AnyDealRequests :
          MayCall(c) /\ PostDealEvaluator(c, body)
    \/ \E c \in Callers, body \in MockLocationRequests :
          MayCall(c) /\ PostLocationAnalyzer(c, body)
    \/ \E c \in Callers : MayCall(c) /\ GetSearchHistory(c)
    \/ \E c \in Callers : MayCall(c) /\ GetGeneratedReports(c)
    \/ \E c \in Callers, reportId \in ReportIds : MayCall(c) /\ PostExportPdf(c, reportId)
    \/ \E i \in 1 .. Len(timers) : AnyTimeout(i)

\* the timer that was set first and has not run out yet does run out; every
\* timer comes to be that one
FairSpecMock ==
    /\ InitServer
    /\ [][NextAnyMock]_vars
    /\ WF_vars(AnyTimeout(1))

\* the user moves between the routes, signs in and out
NextApp ==
    \/ \E userData \in Users : handleLogin(userData)
    \/ handleLogout
    \/ NavigateEffect
    \/ \E path \in Paths : Visit(path)
    \/ Back
    \/ Reload
    \/ toggleTheme
    \/ ThemeEffect

SpecApp == InitServer /\ [][NextApp]_vars

\* a signed-in user has opened the price estimator
InitPriceEstimator ==
    /\ timers = << >>
    /\ call = [c \in Callers |-> [st |-> "idle"]]
    /\ page = InitPage
    /\ app = SignedInAt("/price-estimator")
    /\ theme = LightTheme

\* the PriceEstimator page and the server behind it
NextPage ==
    \/ \E name \in FormFields : \E value \in FormValues(name) : PEHandleChange(name, value)
    \/ \E reaches \in BOOLEAN : PEHandleSubmit(reaches)
    \/ \E i \in 1 .. Len(timers) : PriceEstimatorTimeout(i)
    \/ PEResolve
    \/ PEReject

SpecPage == InitPriceEstimator /\ [][NextPage]_vars

\* the state in which the route's page is mounted
MountedPage(path) ==
    IF path = "/price-estimator" THEN InitPage
    ELSE IF path = "/deal-evaluator" THEN InitDealEvaluator
    ELSE InitLocationAnalyzer

\* a signed-in user has opened one of the three analysis pages
InitPages ==
    /\ timers = << >>
    /\ call = [c \in Callers |-> [st |-> "idle"]]
    /\ \E path \in {"/price-estimator", "/deal-evaluator", "/location-analyzer"} :
          /\ app = SignedInAt(path)
          /\ page = MountedPage(path)
    /\ theme = LightTheme

\* the page in the browser: a form is submitted only when its button is enabled
\* and its inputs are valid
NextPages ==
    \/ \E name \in FormFields : \E value \in FormValues(name) : PEHandleChange(name, value)
    \/ \E reaches \in BOOLEAN : PEHandleSubmit(reaches)
    \/ \E i \in 1 .. Len(timers) : PriceEstimatorTimeout(i)
    \/ PEResolve
    \/ PEReject
    \/ \E name \in DEFormFields : \E value \in DEFormValues(name) : DEHandleChange(name, value)
    \/ \E reaches \in BOOLEAN : DEClickSubmit(reaches)
    \/ \E i \in 1 .. Len(timers) : DealEvaluatorTimeout(i)
    \/ DEResolve
    \/ DEReject
    \/ \E value \in LocationInputs : LAHandleChange(value)
    \/ \E reaches \in BOOLEAN : LAClickSubmit(reaches)
    \/ \E i \in 1 .. Len(timers) : LocationAnalyzerTimeout(i)
    \/ LAResolve
    \/ LAReject

SpecPages == InitPages /\ [][NextPages]_vars

\* the values a user of few words chooses from
FewFormValues(name) ==
    IF name = "propertyType" THEN {"House", "Land"}
    ELSE IF name = "bedrooms" THEN {JsEmpty, JsInt(3)}
    ELSE IF name = "bathrooms" THEN {JsEmpty, JsNum(1, 2)}
    ELSE IF name = "area" THEN {JsEmpty, JsInt(150)}
    ELSE IF name = "location" THEN {""} \cup Locations
    ELSE {JsEmpty, JsInt(17), JsInt(20)}

FewLocationInputs == { << >>, << " " >>, << "S", "F" >> }

\* NextPages with fewer values to choose from
NextFewPages ==
    \/ \E name \in FormFields : \E value \in FewFormValues(name) : PEHandleChange(name, value)
    \/ \E reaches \in BOOLEAN : PEHandleSubmit(reaches)
    \/ \E i \in 1 .. Len(timers) : PriceEstimatorTimeout(i)
    \/ PEResolve
    \/ PEReject
    \/ \E name \in DEFormFields : \E value \in FewFormValues(name) : DEHandleChange(name, value)
    \/ \E reaches \in BOOLEAN : DEClickSubmit(reaches)
    \/ \E i \in 1 .. Len(timers) : DealEvaluatorTimeout(i)
    \/ DEResolve
    \/ DEReject
    \/ \E value \in FewLocationInputs : LAHandleChange(value)
    \/ \E reaches \in BOOLEAN : LAClickSubmit(reaches)
    \/ \E i \in 1 .. Len(timers) : LocationAnalyzerTimeout(i)
    \/ LAResolve
    \/ LAReject

\* the server's timers run out, and a POST that was sent settles: it resolves
\* with the answer or is rejected
FairSpecPages ==
    /\ InitPages
    /\ [][NextFewPages]_vars
    /\ WF_vars(\E i \in 1 .. Len(timers) :
                  \/ PriceEstimatorTimeout(i)
                  \/ DealEvaluatorTimeout(i)
                  \/ LocationAnalyzerTimeout(i))
    /\ WF_vars(PEResolve \/ PEReject)
    /\ WF_vars(DEResolve \/ DEReject)
    /\ WF_vars(LAResolve \/ LAReject)

\* a signed-in user has opened the deal evaluator or the location analyzer
InitHandlers ==
    /\ timers = << >>
    /\ call = [c \in Callers |-> [st |-> "idle"]]
    /\ \E path \in {"/deal-evaluator", "/location-analyzer"} :
          /\ app = SignedInAt(path)
          /\ page = MountedPage(path)
    /\ theme = LightTheme

\* the handlers called whatever the form holds, one submission at a time
NextHandlers ==
    \/ \E name \in DEFormFields : \E value \in DEFormValues(name) : DEHandleChange(name, value)
    \/ \E reaches \in BOOLEAN : page.net = "none" /\ DEHandleSubmit(reaches)
    \/ \E i \in 1 .. Len(timers) : DealEvaluatorTimeout(i)
    \/ DEResolve
    \/ DEReject
    \/ \E value \in LocationInputs : LAHandleChange(value)
    \/ \E reaches \in BOOLEAN : page.net = "none" /\ LAHandleSubmit(reaches)
    \/ \E i \in 1 .. Len(timers) : LocationAnalyzerTimeout(i)
    \/ LAResolve
    \/ LAReject

SpecHandlers == InitHandlers /\ [][NextHandlers]_vars

\* every form the browser lets the user submit on the price estimator
FormPriceInputs == {formData \in PriceRequests : FormIsValid(formData)}

\* what the number inputs of the deal evaluator can hold: '' or a number
FormDealInputs ==
    [propertyPrice : DealAmounts \ {JsNaN}, estimatedMarketValue : DealAmounts \ {JsNaN},
     location : Locations]

\* one API client that was handed a deal request, or a signed-in user who has
\* filled in the price estimator or the deal evaluator
InitFallback ==
    /\ timers = << >>
    /\ theme = LightTheme
    /\ \/ /\ \E body \in DealRequests :
                call = [c \in Callers |->
                          IF c = 1
                          THEN [st |-> "ready", ep |-> DealEvaluatorPath, body |-> body]
                          ELSE [st |-> "idle"]]
          /\ page = InitPage
          /\ app = InitApp
       \/ /\ call = [c \in Callers |-> [st |-> "idle"]]
          /\ app = SignedInAt("/price-estimator")
          /\ \E formData \in FormPriceInputs : page = [InitPage EXCEPT !.formData = formData]
       \/ /\ call = [c \in Callers |-> [st |-> "idle"]]
          /\ app = SignedInAt("/deal-evaluator")
          /\ \E formData \in FormDealInputs :
                page = [InitDealEvaluator EXCEPT !.formData = formData]

\* the request or the form is submitted and answered, or the POST fails
NextFallback ==
    \/ /\ call[1].st = "ready"
       /\ PostDealEvaluator(1, call[1].body)
    \/ \E reaches \in BOOLEAN : PEHandleSubmit(reaches)
    \/ \E reaches \in BOOLEAN : DEClickSubmit(reaches)
    \/ \E i \in 1 .. Len(timers) : PriceEstimatorTimeout(i)
    \/ \E i \in 1 .. Len(timers) : DealEvaluatorTimeout(i)
    \/ PEResolve
    \/ PEReject
    \/ DEResolve
    \/ DEReject

SpecFallback == InitFallback /\ [][NextFallback]_vars

----------------------------------------------------------------------------
(* Properties of the price estimator *)

Answered(c, ep) == call[c].st = "answered" /\ call[c].ep = ep

\* bathrooms counted in halves
Halves(v) == (2 * v.n) \div v.d

PriceFactor10(propertyType) ==
    IF propertyType = "House" THEN 12 ELSE IF propertyType = "Apartment" THEN 10 ELSE 8

\* round((250000 + bedrooms*25000 + bathrooms*15000 + area*100) * m), in integers
ClosedFormPrice(body) ==
    LET twice == 2 * 250000 + 2 * body.bedrooms.n * 25000
                 + Halves(body.bathrooms) * 15000 + 2 * body.area.n * 100
    IN  (twice * PriceFactor10(body.propertyType) + 10) \div 20

DocumentedPriceRequest ==
    [propertyType |-> "House", bedrooms |-> JsInt(4), bathrooms |-> JsNum(6, 2),
     area |-> JsInt(2500), location |-> "San Francisco, CA"]

ClosedFormConfidence(body) ==
    LET x200 == 14000 + 400 * body.bedrooms.n + 300 * Halves(body.bathrooms)
                + 2 * body.area.n
        r == (x200 + 100) \div 200
    IN  IF r > 95 THEN 95 ELSE r

FactorNames(fs) == [i \in 1 .. Len(fs) |-> fs[i].factor]
FactorImpacts(fs) == [i \in 1 .. Len(fs) |-> fs[i].impact]

AtLeastThree(v) == v.k = "num" /\ v.d > 0 /\ v.n >= 3 * v.d

C12_PositiveIntegerPrice ==
    \A c \in Callers :
        Answered(c, PriceEstimatorPath) /\ ValidPriceRequest(call[c].body) =>
            /\ call[c].data.estimatedPrice.d > 0
            /\ call[c].data.estimatedPrice.n % call[c].data.estimatedPrice.d = 0
            /\ call[c].data.estimatedPrice.n > 0

\* the cheapest valid request: Land, no rooms, 100 sq.ft gives 208000
C12_Witness ==
    \E c \in Callers :
        /\ Answered(c, PriceEstimatorPath)
        /\ call[c].body.propertyType = "Land"
        /\ call[c].body.bedrooms = JsInt(0)
        /\ call[c].body.bathrooms = JsNum(0, 2)
        /\ call[c].body.area = JsInt(MinArea)
        /\ call[c].data.estimatedPrice = Num(208000)

\* C4: a price estimate with an invalid field fails with an InvalidInput error
\* naming the field, and a valid request always gets a result.
C4_InvalidInputNamesField ==
    \A c \in Callers :
        Answered(c, PriceEstimatorPath) =>
            IF ValidPriceRequest(call[c].body)
            THEN "estimatedPrice" \in DOMAIN call[c].data
            ELSE /\ "error" \in DOMAIN call[c].data
                 /\ "estimatedPrice" \notin DOMAIN call[c].data

----------------------------------------------------------------------------
(* Properties of the deal evaluator *)

IsPositive(v) == v.k = "num" /\ v.d > 0 /\ v.n > 0

\* the tier of price / value for positive integers, by cross-multiplication
TierOf(price, value) ==
    IF 100 * price <= 85 * value THEN <<"Buy", 90>>
    ELSE IF 100 * price <= 95 * value THEN <<"Buy", 80>>
    ELSE IF 100 * price <= 105 * value THEN <<"Hold", 75>>
    ELSE IF 100 * price <= 115 * value THEN <<"Hold", 70>>
    ELSE <<"Avoid", 85>>

Verdict(data) == <<data.dealScore, data.confidenceLevel>>

DocumentedDealRequest ==
    [propertyPrice |-> JsInt(350000), estimatedMarketValue |-> JsInt(400000),
     location |-> "San Francisco, CA"]

OnThreshold(price, value, verdict) ==
    \/ 100 * price = 85 * value /\ verdict = <<"Buy", 90>>
    \/ 100 * price = 95 * value /\ verdict = <<"Buy", 80>>
    \/ 100 * price = 105 * value /\ verdict = <<"Hold", 75>>
    \/ 100 * price = 115 * value /\ verdict = <<"Hold", 70>>

IsThreshold(price, value) ==
    \E t \in {85, 95, 105, 115} : 100 * price = t * value

\* C5: a ratio exactly equal to 0.85, 0.95, 1.05 or 1.15 falls into the lower tier:
\* (Buy, 90), (Buy, 80), (Hold, 75), (Hold, 70).
C5_BoundaryLowerTier ==
    \A c \in Callers :
        Answered(c, DealEvaluatorPath)
        /\ IsPositive(call[c].body.propertyPrice)
        /\ IsPositive(call[c].body.estimatedMarketValue)
        /\ IsThreshold(call[c].body.propertyPrice.n, call[c].body.estimatedMarketValue.n) =>
            OnThreshold(call[c].body.propertyPrice.n, call[c].body.estimatedMarketValue.n,
                        Verdict(call[c].data))

\* ratio 21 / 20 = 1.05
C5_Witness ==
    \E c \in Callers :
        /\ Answered(c, DealEvaluatorPath)
        /\ call[c].body.propertyPrice = JsInt(21)
        /\ call[c].body.estimatedMarketValue = JsInt(20)
        /\ Verdict(call[c].data) = <<"Hold", 75>>

C3_InvalidInputOnNonPositiveValue ==
    \A c \in Callers :
        Answered(c, DealEvaluatorPath)
        /\ call[c].body.estimatedMarketValue.k = "num"
        /\ call[c].body.estimatedMarketValue.n <= 0 =>
            /\ "error" \in DOMAIN call[c].data
            /\ "dealScore" \notin DOMAIN call[c].data
            /\ "confidenceLevel" \notin DOMAIN call[c].data

----------------------------------------------------------------------------
(* Determinism *)

\* C10: two calls of the same operation with identical inputs get identical
\* outputs, whatever other calls happened before or in between.
C10_Deterministic ==
    \A c1, c2 \in Callers :
        /\ call[c1].st = "answered"
        /\ call[c2].st = "answered"
        /\ call[c1].ep = call[c2].ep
        /\ call[c1].body = call[c2].body
        => call[c1].data = call[c2].data

C10_Witness ==
    \E c1, c2 \in Callers :
        /\ c1 # c2
        /\ call[c1].st = "answered"
        /\ call[c2].st = "answered"
        /\ call[c1].ep = call[c2].ep
        /\ call[c1].body = call[c2].body
        /\ call[c1].data = call[c2].data

----------------------------------------------------------------------------
(* Confidence range *)

IsIntegerIn(x, lo, hi) == x.d = 1 /\ lo <= x.n /\ x.n <= hi

\* C8: the confidence of every price estimate is an integer in [70, 95]: in the
\* server's answer to a valid request, and in the estimate the PriceEstimator
\* page shows, the one it computes itself after a failed call included.
C8_ConfidenceRange ==
    /\ page.response # << >> => IsIntegerIn(page.response[1].confidence, 70, 95)
    /\ page.estimate # << >> => IsIntegerIn(page.estimate[1].confidence, 70, 95)

\* an estimate of the page's own making
C8_Witness ==
    /\ page.estimate # << >>
    /\ page.estimate[1].factors = PageFactors(page.formData)
    /\ page.estimate[1].confidence = Num(85)
    /\ ~page.isLoading

----------------------------------------------------------------------------
(* Isolation of concurrent requests *)

\* the answers a handler can give to one request
ResponsesTo(ep, body) ==
    IF ep = PriceEstimatorPath THEN {PriceEstimatorResponse(body)}
    ELSE IF ep = DealEvaluatorPath THEN {DealEvaluatorResponse(body)}
    ELSE IF ep = LocationAnalyzerPath
         THEN {LocationAnalyzerResponse(body, r1, r2) :
                  r1 \in RandomIndex(safetyRatings), r2 \in RandomIndex(summaries)}
    ELSE IF ep = SearchHistoryPath THEN {SearchHistoryResponse}
    ELSE IF ep = GeneratedReportsPath THEN {GeneratedReportsResponse}
    ELSE {ExportPdfResponse(body)}

C19_ExportPdf ==
    \A c \in Callers :
        Answered(c, ExportPdfPath) =>
            /\ call[c].data.success = TRUE
            /\ call[c].data.downloadUrl
                 = <<"/api/reports/", call[c].body.reportId, "/download-pdf">>

C19_Witness ==
    \E c1, c2 \in Callers :
        /\ Answered(c1, ExportPdfPath)
        /\ call[c2].st = "pending"
        /\ call[c2].ep = ExportPdfPath
        /\ call[c1].body.reportId # call[c2].body.reportId
        /\ call[c1].data.downloadUrl
             = <<"/api/reports/", call[c1].body.reportId, "/download-pdf">>

----------------------------------------------------------------------------
(* Properties of the pages *)

\* the step in which a PriceEstimator POST that never reached the server is
\* rejected and handleSubmit leaves through catch and finally
PERejected == page.isLoading /\ page.net = "lost" /\ ~page'.isLoading

\* C20: the estimate the PriceEstimator page builds itself when the API call
\* fails has exactly the 4 factors Property Type, Location, Size, Bedrooms in
\* this order, with Bedrooms Positive when bedrooms >= 3 and Neutral otherwise.
C20_FallbackFactorRule ==
    [][PERejected =>
         LET fs == page'.estimate[1].factors
         IN  /\ FactorNames(fs) = <<"Property Type", "Location", "Size", "Bedrooms">>
             /\ fs[4].impact = IF AtLeastThree(page.sent[1].bedrooms)
                               THEN "Positive" ELSE "Neutral"]_vars

----------------------------------------------------------------------------
(* Properties of App *)

ProtectedPaths == {"/dashboard", "/price-estimator", "/location-analyzer", "/deal-evaluator"}
ProtectedPages == {"Dashboard", "PriceEstimator", "LocationAnalyzer", "DealEvaluator"}

\* C17: the Dashboard, PriceEstimator, LocationAnalyzer and DealEvaluator
\* pages are rendered only while isAuthenticated is true, and at a protected
\* path an unauthenticated App renders the navigation to /login.
C17_ProtectedRoutes ==
    /\ Rendered.type \in ProtectedPages => app.isAuthenticated
    /\ Location(app) \in ProtectedPaths /\ ~app.isAuthenticated
          => Rendered = [type |-> "Navigate", to |-> "/login"]

\* a user signed in, opened the deal evaluator and signed out there
C17_Witness ==
    /\ Location(app) = "/deal-evaluator"
    /\ ~app.isAuthenticated
    /\ Len(app.history) = MaxHistory
    /\ app.history[2] = "/dashboard"

----------------------------------------------------------------------------
(* Properties of the three analysis pages *)

\* the result the page displays: estimate, evaluation or analysis
Shown(p) ==
    IF "estimate" \in DOMAIN p THEN p.estimate
    ELSE IF "evaluation" \in DOMAIN p THEN p.evaluation
    ELSE p.analysis

\* C13: every started submission of the PriceEstimator, DealEvaluator and
\* LocationAnalyzer pages eventually ends with isLoading = false and a non-null
\* result, whether the POST resolves or rejects.
C13_SubmissionEnds == page.isLoading ~> (~page.isLoading /\ Shown(page) # << >>)

\* the deal evaluator shows a Hold after a submission
C13_Witness ==
    /\ Rendered.type = "DealEvaluator"
    /\ ~page.isLoading
    /\ page.evaluation # << >>
    /\ page.evaluation[1].dealScore = "Hold"

\* the step in which a result appears on the page
Displays == Shown(page) = << >> /\ Shown(page') # << >>

\* the displayed values are those of the response the page holds
FromResponse ==
    /\ page.net = "replied"
    /\ IF Rendered.type = "PriceEstimator"
       THEN /\ page'.estimate[1].price = page.response[1].estimatedPrice
            /\ page'.estimate[1].confidence = page.response[1].confidence
       ELSE /\ page'.evaluation[1].dealScore = page.response[1].dealScore
            /\ page'.evaluation[1].confidenceLevel = page.response[1].confidenceLevel

\* the displayed values are the page's own calculation from the submitted form
OwnCalculation ==
    IF Rendered.type = "PriceEstimator"
    THEN /\ page'.estimate[1].price = FallbackEstimate(page.sent[1]).price
         /\ page'.estimate[1].confidence = Num(85)
    ELSE /\ page'.evaluation[1].dealScore = FallbackEvaluation(page.sent[1]).dealScore
         /\ page'.evaluation[1].confidenceLevel
              = FallbackEvaluation(page.sent[1]).confidenceLevel

Blank(s) == \A i \in 1 .. Len(s) : s[i] \in WhiteSpace

\* handleSubmit runs on a form with an empty field
EmptySubmission ==
    \/ /\ Rendered.type = "DealEvaluator"
       /\ \/ page.formData.propertyPrice = JsEmpty
          \/ page.formData.estimatedMarketValue = JsEmpty
          \/ page.formData.location = ""
       /\ \E reaches \in BOOLEAN : DEHandleSubmit(reaches)
    \/ /\ Rendered.type = "LocationAnalyzer"
       /\ Blank(page.location)
       /\ \E reaches \in BOOLEAN : LAHandleSubmit(reaches)

\* C15: DealEvaluator.handleSubmit invoked while propertyPrice,
\* estimatedMarketValue or location is empty, and LocationAnalyzer.handleSubmit
\* invoked while location is empty or only white space, send no request and
\* leave isLoading, the displayed result and error unchanged.
C15_EmptySubmissionPrevented ==
    [][EmptySubmission =>
         /\ timers' = timers
         /\ page'.isLoading = page.isLoading
         /\ Shown(page') = Shown(page)
         /\ page'.error = page.error]_vars

\* an evaluation is on display and the price field was emptied afterwards
C15_Witness ==
    /\ Rendered.type = "DealEvaluator"
    /\ page.formData.propertyPrice = JsEmpty
    /\ page.formData.location # ""
    /\ ~page.isLoading
    /\ page.evaluation # << >>

\* the requests of the page the server has not answered yet
PageRequests == {i \in 1 .. Len(timers) : timers[i].from = "page"}

\* C16: on each of the three analysis pages no second submission starts while
\* one is in flight: at most one request of the page is outstanding, and only
\* while isLoading is true.
C16_OneSubmissionInFlight ==
    /\ Cardinality(PageRequests) <= 1
    /\ PageRequests # {} => page.isLoading
    /\ page.isLoading <=> page.net # "none"

\* the deal evaluator waits for the server and the user has changed the form
C16_Witness ==
    /\ Rendered.type = "DealEvaluator"
    /\ page.isLoading
    /\ Cardinality(PageRequests) = 1
    /\ page.formData # page.sent[1]

\* C18: every location analysis result, from the location-analyzer endpoint or
\* from the LocationAnalyzer page's fallback after a failed call, has exactly 5
\* nearby schools and exactly 5 transport options.
C18_FiveSchoolsFiveTransport ==
    Rendered.type = "LocationAnalyzer" =>
        /\ page.response # << >> =>
              /\ Len(page.response[1].nearbySchools) = 5
              /\ Len(page.response[1].transportAccess) = 5
        /\ page.analysis # << >> =>
              /\ Len(page.analysis[1].nearbySchools) = 5
              /\ Len(page.analysis[1].transportAccess) = 5

\* the page shows a server's analysis, rated B
C18_Witness ==
    /\ Rendered.type = "LocationAnalyzer"
    /\ page.analysis # << >>
    /\ page.analysis[1].safetyRating = "B"
    /\ Len(page.analysis[1].nearbySchools) = 5

----------------------------------------------------------------------------
(* Properties of App's state and of the ThemeProvider *)

\* C28: isAuthenticated = false implies user = null; handleLogout from any
\* state yields isAuthenticated = false and user = null; while isAuthenticated
\* is true the /login and /register routes navigate to /dashboard.
C28_LoginState ==
    /\ [](/\ ~app.isAuthenticated => app.user = << >>
          /\ app.isAuthenticated /\ Location(app) \in {"/login", "/register"}
                => Rendered = [type |-> "Navigate", to |-> "/dashboard"])
    /\ [][handleLogout => ~app'.isAuthenticated /\ app'.user = << >>]_vars

\* a user has just signed in on the register page
C28_Witness ==
    /\ app.isAuthenticated
    /\ app.user # << >>
    /\ Location(app) = "/register"

\* C29: once the effect of the last state change has run, localStorage 'theme'
\* is 'dark' exactly when isDarkMode is true and the document root carries the
\* class 'dark' exactly when isDarkMode is true; a newly mounted provider starts
\* with the isDarkMode that was last in effect, light when nothing is stored.
C29_ThemePersisted ==
    /\ [](~theme.effect =>
             /\ theme.stored = "dark" <=> theme.isDarkMode
             /\ theme.rootDark <=> theme.isDarkMode)
    /\ [][Reload =>
             /\ ~theme.effect => theme'.isDarkMode = theme.isDarkMode
             /\ theme.stored = "none" => ~theme'.isDarkMode]_vars

\* the dark theme is in effect in a document loaded with it
C29_Witness ==
    /\ theme.isDarkMode
    /\ ~theme.effect
    /\ theme.stored = "dark"
    /\ theme.rootDark
    /\ ~app.isAuthenticated
    /\ Len(app.history) = MaxHistory

----------------------------------------------------------------------------
(* The pages' own calculations beside the server's *)

\* the step in which a DealEvaluator POST that never reached the server is
\* rejected and handleSubmit leaves through catch and finally
DERejected ==
    /\ Rendered.type = "DealEvaluator"
    /\ page.isLoading /\ page.net = "lost" /\ ~page'.isLoading

\* C21: for every pair of numeric form inputs the DealEvaluator page's own
\* evaluation has the dealScore, confidenceLevel and explanation tier the
\* deal-evaluator endpoint gives for the same inputs.
C21_FallbackEvaluationAsServer ==
    [][DERejected =>
         LET own == page'.evaluation[1]
             server == DealEvaluatorResponse(page.sent[1])
         IN  /\ own.dealScore = server.dealScore
             /\ own.confidenceLevel = server.confidenceLevel
             /\ own.aiExplanation = server.aiExplanation]_vars

\* 22 for 20 is Hold with 70 on the page
C21_Witness ==
    /\ Rendered.type = "DealEvaluator"
    /\ page.formData.propertyPrice = JsInt(22)
    /\ page.formData.estimatedMarketValue = JsInt(20)
    /\ page.evaluation # << >>
    /\ Verdict(page.evaluation[1]) = <<"Hold", 70>>

\* C22: for every valid form input the price the PriceEstimator page computes
\* itself equals the estimatedPrice of the price-estimator endpoint for the
\* same input.
C22_FallbackPriceAsServer ==
    [][Rendered.type = "PriceEstimator" /\ PERejected =>
         page'.estimate[1].price = PriceEstimatorResponse(page.sent[1]).estimatedPrice]_vars

\* a House with 3 bedrooms, 2.5 bathrooms and 2500 sq.ft: 735000 on the page
C22_Witness ==
    /\ Rendered.type = "PriceEstimator"
    /\ page.formData.propertyType = "House"
    /\ page.formData.bedrooms = JsInt(3)
    /\ page.formData.bathrooms = JsNum(5, 2)
    /\ page.formData.area = JsInt(2500)
    /\ page.estimate # << >>
    /\ page.estimate[1].price = Num(735000)
    /\ page.estimate[1].confidence = Num(85)

DealPairs ==
    {<<"Buy", 90>>, <<"Buy", 80>>, <<"Hold", 75>>, <<"Hold", 70>>, <<"Avoid", 85>>}

\* C23: every deal evaluation of the server or of the page's own calculation,
\* for any input, zero, negative and non-numeric values included, has
\* (dealScore, confidenceLevel) among (Buy, 90), (Buy, 80), (Hold, 75),
\* (Hold, 70), (Avoid, 85): never (Avoid, 70), and never below 70.
C23_DealPairs ==
    /\ \A c \in Callers :
          Answered(c, DealEvaluatorPath) =>
              Verdict(call[c].data) \in DealPairs /\ call[c].data.confidenceLevel >= 70
    /\ Rendered.type = "DealEvaluator" =>
          /\ page.response # << >> => Verdict(page.response[1]) \in DealPairs
          /\ page.evaluation # << >> =>
                /\ Verdict(page.evaluation[1]) \in DealPairs
                /\ page.evaluation[1].confidenceLevel >= 70

\* the page has evaluated a price against a market value of 0 by itself
C23_Witness ==
    /\ Rendered.type = "DealEvaluator"
    /\ page.formData.propertyPrice = JsInt(-1)
    /\ page.formData.estimatedMarketValue = JsInt(0)
    /\ page.evaluation # << >>
    /\ timers = << >>

\* Buy < Hold < Avoid
ScoreRank(dealScore) == IF dealScore = "Buy" THEN 1 ELSE IF dealScore = "Hold" THEN 2 ELSE 3

\* C24: with a positive estimatedMarketValue the dealScore is monotone in
\* propertyPrice: p1 <= p2 implies score(p1) <= score(p2) in the order
\* Buy < Hold < Avoid.
C24_MonotoneInPrice ==
    \A c \in Callers :
        Answered(c, DealEvaluatorPath)
        /\ IsPositive(call[c].body.estimatedMarketValue)
        /\ call[c].body.propertyPrice.k = "num" =>
            \A p2 \in {a \in DealAmounts : a.k = "num"} :
                Leq(ToNumber(call[c].body.propertyPrice), ToNumber(p2)) =>
                    ScoreRank(call[c].data.dealScore)
                      <= ScoreRank(DealEvaluatorResponse(
                                     [call[c].body EXCEPT !.propertyPrice = p2]).dealScore)

\* 21 for 20 is answered Hold, and 24 for 20 would be Avoid
C24_Witness ==
    \E c \in Callers :
        /\ Answered(c, DealEvaluatorPath)
        /\ call[c].body.propertyPrice = JsInt(21)
        /\ call[c].body.estimatedMarketValue = JsInt(20)
        /\ call[c].data.dealScore = "Hold"
        /\ DealEvaluatorResponse([call[c].body EXCEPT !.propertyPrice = JsInt(24)]).dealScore
             = "Avoid"

----------------------------------------------------------------------------
(* Every request is answered *)

\* the callbacks that have yet to answer the client c
TimersOf(c) == {i \in 1 .. Len(timers) : timers[i].from = "api" /\ timers[i].c = c}

----------------------------------------------------------------------------
(* The error state and the result during a submission *)

Submitting == page.isLoading \/ page.net # "none"

\* C27: on each analysis page handleSubmit sets isLoading and clears the previous
\* result and error before the POST is issued, so from the moment the request
\* is sent until that submission completes the page is loading and holds no
\* result of an earlier submission.
C27_NoEarlierResult ==
    Submitting => page.isLoading /\ Shown(page) = << >> /\ page.error = ""

\* the answer to the price estimator's request has arrived and the page, still
\* loading, shows no estimate
C27_Witness ==
    /\ Rendered.type = "PriceEstimator"
    /\ page.isLoading
    /\ page.net = "replied"
    /\ page.response # << >>
    /\ page.estimate = << >>

====
